---------------------------- MODULE Spec2Model ----------------------------
(***************************************************************************)
(* ROMA shopping agent: the rule-based query pipeline.                     *)
(*   BudgetAnalyzer          src/src/budget_analyzer.py                    *)
(*   MockProductDatabase     src/src/mock_database.py                      *)
(*   ShoppingQueryProcessor  src/src/shopping_processor.py                 *)
(* Queries and product fields are TLA+ strings handled character by        *)
(* character: substring tests, lower-casing, whitespace splitting and the  *)
(* three price regular expressions are computed as the Python code         *)
(* computes them.  An Optional value is a sequence of length at most one.  *)
(***************************************************************************)
EXTENDS Integers, Sequences, FiniteSets, TLC

VARIABLES products, response

vars == <<products, response>>

---------------------------------------------------------------------------
(* Optional values (Python None / a value)                                 *)

None == <<>>

Some(x) == <<x>>

IsNone(o) == o = <<>>

Val(o) == o[1]

---------------------------------------------------------------------------
(* Strings: the str operations the code uses.  A value that is used more   *)
(* than once is handed on as an operator parameter.                        *)

Min(S) == CHOOSE x \in S : \A y \in S : x <= y

Max(S) == CHOOSE x \in S : \A y \in S : y <= x

\* the least element of a set of positions, 0 for the empty set
MinOrZero(S) == IF S = {} THEN 0 ELSE Min(S)

\* s[i-1] in Python terms; the empty string outside the string
Char(s, i) == IF i \in 1..Len(s) THEN SubSeq(s, i, i) ELSE ""

UpperLetters == "ABCDEFGHIJKLMNOPQRSTUVWXYZ"

LowerLetters == "abcdefghijklmnopqrstuvwxyz"

Whitespace == {" ", "\t"}

Digits == {"0", "1", "2", "3", "4", "5", "6", "7", "8", "9"}

Rupee == "₹"

\* str.lower() of one character: k is its place among the upper-case letters
LowerAt(c, k) == IF k = 0 THEN c ELSE Char(LowerLetters, k)

\* the upper-case letters as a set of characters
UpperSet == {Char(UpperLetters, k) : k \in 1..Len(UpperLetters)}

LowerChar(c) ==
    IF c \notin UpperSet THEN c
    ELSE LowerAt(c, MinOrZero({k \in 1..Len(UpperLetters) : Char(UpperLetters, k) = c}))

\* str.lower(): every character lower-cased (the text is halved rather than
\* walked, so that the evaluation depth stays logarithmic in its length)
RECURSIVE Lower(_)
Lower(s) ==
    IF Len(s) <= 1 THEN LowerChar(s)
    ELSE Lower(SubSeq(s, 1, Len(s) \div 2)) \o Lower(SubSeq(s, Len(s) \div 2 + 1, Len(s)))

\* str.upper() of one character: k is its place among the lower-case
\* letters; the sharp s becomes two letters
UpperAt(c, k) ==
    IF c = "ß" THEN "SS" ELSE IF k = 0 THEN c ELSE Char(UpperLetters, k)

UpperChar(c) ==
    UpperAt(c, MinOrZero({k \in 1..Len(LowerLetters) : Char(LowerLetters, k) = c}))

\* str.upper(), halved as Lower is
RECURSIVE Upper(_)
Upper(s) ==
    IF Len(s) <= 1 THEN UpperChar(s)
    ELSE Upper(SubSeq(s, 1, Len(s) \div 2)) \o Upper(SubSeq(s, Len(s) \div 2 + 1, Len(s)))

\* the text between the first and the last of the positions `inked`
Between(s, inked) == IF inked = {} THEN "" ELSE SubSeq(s, Min(inked), Max(inked))

\* str.strip(): leading and trailing whitespace removed
Strip(s) == Between(s, {i \in 1..Len(s) : Char(s, i) \notin Whitespace})

\* Python's `k in s` for strings
Contains(s, k) ==
    \E i \in 1..(Len(s) - Len(k) + 1) : SubSeq(s, i, i + Len(k) - 1) = k

\* the text k occurs in s starting at position i
StartsAt(s, i, k) ==
    i + Len(k) - 1 <= Len(s) /\ SubSeq(s, i, i + Len(k) - 1) = k

\* first position >= i holding a character outside the set cs (Len(s)+1 if none)
SkipChars(s, i, cs) == Min({j \in i..(Len(s) + 1) : Char(s, j) \notin cs})

\* str.split(): the maximal runs of non-whitespace characters, in order;
\* WordsFrom(s, a) are those from the non-whitespace position a on
RECURSIVE WordsFrom(_, _)
WordTo(s, a, b) == <<SubSeq(s, a, b - 1)>> \o WordsFrom(s, SkipChars(s, b, Whitespace))

WordsFrom(s, a) ==
    IF a > Len(s) THEN <<>>
    ELSE WordTo(s, a, Min({j \in (a + 1)..(Len(s) + 1) : Char(s, j) \in Whitespace \cup {""}}))

Split(s) == WordsFrom(s, SkipChars(s, 1, Whitespace))

\* str.replace(',', '')
RECURSIVE RemoveCommas(_)
RemoveCommas(s) ==
    IF Len(s) <= 1 THEN (IF s = "," THEN "" ELSE s)
    ELSE RemoveCommas(SubSeq(s, 1, Len(s) \div 2))
           \o RemoveCommas(SubSeq(s, Len(s) \div 2 + 1, Len(s)))

\* any(k in s for k in ks), ks a sequence
AnyIn(ks, s) == \E n \in 1..Len(ks) : Contains(s, ks[n])

---------------------------------------------------------------------------
(* Lexicon: src/src/config.py.  A dict is the sequence of its items in     *)
(* insertion order, which is the order .items() iterates in.               *)

CATEGORY_KEYWORDS ==
    << <<"apparel",
         <<"shoes", "clothes", "t-shirt", "shirt", "pants", "trousers", "jeans",
           "dress", "jacket", "coat", "footwear", "sneakers", "boots", "sandals",
           "sweater", "hoodie", "joggers", "shorts", "skirt", "blouse">> >>,
       <<"mobiles",
         <<"phone", "smartphone", "mobile", "iphone", "android", "cellphone",
           "redmi", "samsung", "realme", "vivo", "oppo", "oneplus", "nokia",
           "moto", "motorola", "poco", "nothing", "google pixel">> >>,
       <<"electronics",
         <<"laptop", "computer", "pc", "notebook", "macbook", "thinkpad",
           "tv", "television", "smart tv", "led tv", "4k tv",
           "camera", "dslr", "mirrorless", "headphones", "earphones",
           "speaker", "soundbar", "tablet", "ipad", "monitor", "keyboard",
           "mouse", "printer", "scanner", "projector", "gaming console">> >> >>

BUDGET_KEYWORDS ==
    << <<"low",
         <<"cheap", "budget", "affordable", "low cost", "economical", "inexpensive",
           "under budget", "low price", "economy", "basic", "entry level">> >>,
       <<"medium",
         <<"mid-range", "reasonable", "moderate", "mid priced", "standard",
           "average", "decent", "fair price", "competitive", "value">> >>,
       <<"high",
         <<"premium", "expensive", "high-end", "luxury", "top", "best",
           "flagship", "professional", "pro", "ultimate", "elite">> >> >>

BUDGET_RANGES ==
    << <<"apparel",     [low |-> 3000,  medium |-> 8000,   high |-> 20000]>>,
       <<"mobiles",     [low |-> 15000, medium |-> 35000,  high |-> 70000]>>,
       <<"electronics", [low |-> 50000, medium |-> 100000, high |-> 250000]>> >>

COLOR_KEYWORDS ==
    <<"red", "blue", "black", "white", "green", "yellow", "pink", "purple",
      "orange", "silver", "gold", "navy", "beige", "brown", "gray", "maroon",
      "cyan", "magenta", "violet", "indigo", "turquoise", "khaki">>

\* rating_multiplier is held in halves: 3 is 1.5
SCORING_WEIGHTS ==
    [keyword_match         |-> 2,
     color_match           |-> 3,
     brand_match           |-> 2,
     price_relevance_under |-> 2,
     price_relevance_over  |-> -5,
     rating_multiplier     |-> 3,
     category_match        |-> 1]

\* the fallback of BUDGET_RANGES.get(category, {}).get(budget_type, 50000)
DefaultBudget == 50000

---------------------------------------------------------------------------
(* Outcome of a call: a returned value, or an exception that propagates    *)

Returned(v) == [raised |-> FALSE, value |-> v]

Raised(e) == [raised |-> TRUE, error |-> e]

\* Python truthiness of an Optional[int]: None and 0 are falsy
TruthyInt(o) == ~IsNone(o) /\ Val(o) # 0

\* Python truthiness of an Optional[str]: None and '' are falsy
TruthyStr(o) == ~IsNone(o) /\ Val(o) # ""

---------------------------------------------------------------------------
(* BudgetAnalyzer: src/src/budget_analyzer.py                              *)

\* (?:rs\.?|₹)? at position a: the position after the optional currency prefix
CurrencyEnd(s, a) ==
    IF StartsAt(s, a, "rs") THEN (IF Char(s, a + 2) = "." THEN a + 3 ELSE a + 2)
    ELSE IF StartsAt(s, a, Rupee) THEN a + 1
    ELSE a

\* the position c if a digit stands there, 0 otherwise
DigitAt(s, c) == IF Char(s, c) \in Digits THEN c ELSE 0

\* (?:rs\.?|₹)?\s* followed by a digit, after the whitespace j..a-1
AmountAfter(s, j, a) ==
    IF a > j THEN DigitAt(s, SkipChars(s, CurrencyEnd(s, a), Whitespace)) ELSE 0

\* \s+(?:rs\.?|₹)?\s* followed by a digit, from position j: the position of
\* that digit, or 0 when the text at j does not match
AmountStart(s, j) == AmountAfter(s, j, SkipChars(s, j, Whitespace))

\* (?:,\d+)* from position d: the position after the last comma group
RECURSIVE CommaGroups(_, _)
CommaGroups(s, d) ==
    IF Char(s, d) = "," /\ Char(s, d + 1) \in Digits
    THEN CommaGroups(s, SkipChars(s, d + 1, Digits))
    ELSE d

\* (?:\.\d+)? from position e, when the pattern has it
FractionEnd(s, e, fraction) ==
    IF fraction /\ Char(s, e) = "." /\ Char(s, e + 1) \in Digits
    THEN SkipChars(s, e + 1, Digits)
    ELSE e

\* \d+(?:,\d+)*(?:\.\d+)? from the digit at c (greedy): the position after the
\* amount; the range pattern's amounts take no fraction
AmountEnd(s, c, fraction) ==
    FractionEnd(s, CommaGroups(s, SkipChars(s, c, Digits)), fraction)

\* the amount captured from the digit at c, None when c is 0 (no match)
AmountText(s, c, fraction) ==
    IF c = 0 THEN None ELSE Some(SubSeq(s, c, AmountEnd(s, c, fraction) - 1))

\* the keyword alternatives of the first two patterns
UnderWords == <<"under", "below", "less than", "upto">>

AroundWords == <<"around", "about">>

\* the length of the first alternative that stands at position i, 0 if none
WordLenAt(words, n) == IF n = 0 THEN 0 ELSE Len(words[n])

AfterWord(s, i, len) ==
    IF len = 0 THEN None ELSE AmountText(s, AmountStart(s, i + len), TRUE)

\* (?:w1|w2|...)\s+(?:rs\.?|₹)?\s*(\d+(?:,\d+)*(?:\.\d+)?) matched at position
\* i: group 1 as Some(text), None when there is no match at i
MatchSingleAt(s, i, words) ==
    AfterWord(s, i, WordLenAt(words,
                      MinOrZero({n \in 1..Len(words) : StartsAt(s, i, words[n])})))

\* \s+and\s+(?:rs\.?|₹)?\s*(\d+(?:,\d+)*) after the first amount, which ends
\* before e1; a is the position after the whitespace that follows it
RangeAnd(s, e1, a) ==
    IF a > e1 /\ StartsAt(s, a, "and")
    THEN AmountText(s, AmountStart(s, a + Len("and")), FALSE)
    ELSE None

RangeSecond(s, e1) == RangeAnd(s, e1, SkipChars(s, e1, Whitespace))

RangeFirst(s, c1) == IF c1 = 0 THEN None ELSE RangeSecond(s, AmountEnd(s, c1, FALSE))

\* between\s+(?:rs\.?|₹)?\s*(\d+(?:,\d+)*)\s+and\s+(?:rs\.?|₹)?\s*(\d+(?:,\d+)*)
\* matched at position i: group 2 as Some(text), None when there is no match
MatchRangeAt(s, i) ==
    IF StartsAt(s, i, "between")
    THEN RangeFirst(s, AmountStart(s, i + Len("between")))
    ELSE None

NumPatterns == 3

\* MatchAt for a pattern list that starts with the 'around' pattern
MatchAtAroundFirst(s, i, n) ==
    IF n = NumPatterns THEN MatchRangeAt(s, i)
    ELSE MatchSingleAt(s, i, IF n = 1 THEN AroundWords ELSE UnderWords)

\* self.budget_patterns entry n, matched at position i: the group the code
\* reads (group 2 of the range pattern, group 1 of the others)
MatchAt(s, i, n) ==
    IF n = NumPatterns THEN MatchRangeAt(s, i)
    ELSE MatchSingleAt(s, i, IF n = 1 THEN UnderWords ELSE AroundWords)

MatchAtOrNone(s, i, n) == IF i = 0 THEN None ELSE MatchAt(s, i, n)

\* pattern.search(query): the match at the leftmost position that has one
Search(s, n) ==
    MatchAtOrNone(s, MinOrZero({i \in 1..Len(s) : ~IsNone(MatchAt(s, i, n))}), n)

\* value of a decimal digit
DigitVal(c) == CHOOSE v \in 0..9 : Char("0123456789", v + 1) = c

RECURSIVE StrToNat(_)
StrToNat(s) ==
    IF s = "" THEN 0
    ELSE 10 * StrToNat(SubSeq(s, 1, Len(s) - 1)) + DigitVal(Char(s, Len(s)))

\* a float holds integers of at most this many digits (about 1.8e308);
\* float() of a longer digit string is inf
FloatMaxDigits == 309

\* the position of the decimal point of an amount, Len + 1 when it has none
DotAt(t) == Min({i \in 1..(Len(t) + 1) : Char(t, i) \in {".", ""}})

\* the digits before the decimal point / after it
IntPart(t) == SubSeq(t, 1, DotAt(t) - 1)

FracPart(t) == SubSeq(t, DotAt(t) + 1, Len(t))

\* number of digits of the integer part without its leading zeros
SigDigits(t) == DotAt(t) - SkipChars(IntPart(t), 1, {"0"})

\* float(price_str) is inf
IsInf(t) == SigDigits(t) > FloatMaxDigits

\* the first three decimals of the fraction, as thousandths
Thousandths(t) == StrToNat(SubSeq(FracPart(t) \o "000", 1, 3))

\* price *= 1000 if 'k' in query.lower() and price < 100; int(price)
Scaled(query, t, whole) ==
    IF Contains(Lower(query), "k") /\ whole < 100
    THEN whole * 1000 + Thousandths(t)
    ELSE whole

\* lines 88-93: price = float(price_str); ...; return int(price).  int(inf)
\* raises OverflowError, which the except clause (ValueError, IndexError)
\* does not catch.
PriceOf(query, t) ==
    IF IsInf(t) THEN Raised("OverflowError")
    ELSE Returned(Some(Scaled(query, t, StrToNat(IntPart(t)))))

budget_keywords ==
    <<"under", "below", "less than", "upto", "around", "about", "between", "max", "maximum">>

\* the loop of lines 79-95 from pattern n on: the first pattern that matches
\* decides (float() accepts every text the patterns capture, so the except
\* branch's `continue` is never taken); m is pattern n's match
RECURSIVE ExtractFrom(_, _)
PatternResult(query, n, m) ==
    IF IsNone(m) THEN ExtractFrom(query, n + 1)
    ELSE PriceOf(query, RemoveCommas(Val(m)))

ExtractFrom(query, n) ==
    IF n > NumPatterns THEN Returned(None)
    ELSE PatternResult(query, n, Search(query, n))

_extract_price(query) ==
    IF ~AnyIn(budget_keywords, Lower(query)) THEN Returned(None)
    ELSE ExtractFrom(query, 1)

\* the key of item n of an ordered table, None for n = 0
KeyAt(table, n) == IF n = 0 THEN None ELSE Some(table[n][1])

\* FirstTableHit taking the last item with a keyword in the query
LastTableHit(table, query) ==
    KeyAt(table, Max({0} \cup {n \in 1..Len(table) : AnyIn(table[n][2], query)}))

\* the first item of an ordered keyword table with a keyword in the query
FirstTableHit(table, query) ==
    KeyAt(table, MinOrZero({n \in 1..Len(table) : AnyIn(table[n][2], query)}))

\* _detect_category without the brand-exclusion rule
DetectCategoryByScan(query) == FirstTableHit(CATEGORY_KEYWORDS, query)

_detect_category(query) ==
    IF /\ AnyIn(<<"non-apple", "not apple", "excluding apple">>, query)
       /\ AnyIn(<<"laptop", "computer", "macbook">>, query)
    THEN Some("electronics")
    ELSE FirstTableHit(CATEGORY_KEYWORDS, query)

\* KeywordTier looking for the keywords of 'high' first
KeywordTierHighFirst(query, hit) ==
    IF AnyIn(BUDGET_KEYWORDS[3][2], query) THEN "high"
    ELSE IF ~IsNone(hit) THEN Val(hit)
    ELSE "low"

\* lines 61-68: the tier of the first BUDGET_KEYWORDS item that has a hit
KeywordTier(query, hit) ==
    IF ~IsNone(hit) THEN Val(hit)
    ELSE IF AnyIn(<<"cheap", "budget", "under">>, query) THEN "low"
    ELSE "low"

\* lines 58-68, p the outcome of self._extract_price(query)
TierOf(query, p) ==
    IF p.raised THEN p
    ELSE IF TruthyInt(p.value) THEN Returned("specific")
    ELSE Returned(KeywordTier(query, FirstTableHit(BUDGET_KEYWORDS, query)))

_detect_budget_type(query) == TierOf(query, _extract_price(query))

\* RowLookup reading the key 'medium' whatever the tier is
RowLookupMedium(n, budget_type) ==
    IF n # 0 THEN BUDGET_RANGES[n][2]["medium"] ELSE DefaultBudget

\* row.get(budget_type, 50000) of the row n of BUDGET_RANGES, {} for n = 0
RowLookup(n, budget_type) ==
    IF n # 0 /\ budget_type \in DOMAIN BUDGET_RANGES[n][2]
    THEN BUDGET_RANGES[n][2][budget_type]
    ELSE DefaultBudget

\* BUDGET_RANGES.get(category, {}).get(budget_type, 50000)
RangeLookup(category, budget_type) ==
    RowLookup(MinOrZero({n \in 1..Len(BUDGET_RANGES) : Some(BUDGET_RANGES[n][1]) = category}),
              budget_type)

\* Analysis with `if specific_budget is not None` at line 29
AnalysisByPresence(query, category, budget_type, specific_budget) ==
    IF budget_type.raised THEN budget_type
    ELSE IF specific_budget.raised THEN specific_budget
    ELSE Returned(
           [category        |-> category,
            max_budget      |-> IF ~IsNone(specific_budget.value)
                                THEN Val(specific_budget.value)
                                ELSE RangeLookup(category, budget_type.value),
            budget_type     |-> budget_type.value,
            specific_budget |-> specific_budget.value,
            original_query  |-> query])

\* lines 29-40, from the outcomes of the three helper calls
Analysis(query, category, budget_type, specific_budget) ==
    IF budget_type.raised THEN budget_type
    ELSE IF specific_budget.raised THEN specific_budget
    ELSE Returned(
           [category        |-> category,
            max_budget      |-> IF TruthyInt(specific_budget.value)
                                THEN Val(specific_budget.value)
                                ELSE RangeLookup(category, budget_type.value),
            budget_type     |-> budget_type.value,
            specific_budget |-> specific_budget.value,
            original_query  |-> query])

\* AnalyzeLower looking for the category in the query as typed
AnalyzeLowerRawCategory(query, query_lower) ==
    Analysis(query, _detect_category(query), _detect_budget_type(query_lower),
             _extract_price(query_lower))

\* lines 23-27, query_lower = query.lower().strip()
AnalyzeLower(query, query_lower) ==
    Analysis(query, _detect_category(query_lower), _detect_budget_type(query_lower),
             _extract_price(query_lower))

analyze_budget(query) == AnalyzeLower(query, Strip(Lower(query)))

---------------------------------------------------------------------------
(* MockProductDatabase: src/src/mock_database.py                           *)
(* A product is a record (a dict); a record of the catalog may lack a key, *)
(* and reading the missing key raises KeyError.  rating is held in tenths  *)
(* (4.5 is 45), so that keys and scores stay integers.                     *)

\* the catalog _load_mock_data falls back to when the data file is absent
FallbackCatalog ==
    << [name        |-> "Red Nike Air Max",
        price       |-> 2499,
        rating      |-> 45,
        description |-> "Comfortable running shoes with Air Max cushioning",
        category    |-> "apparel",
        brand       |-> "Nike",
        color       |-> "red",
        platform    |-> "Amazon"] >>

\* the list an outcome holds, [] once a statement has raised
ListOf(prev) == IF prev.raised THEN <<>> ELSE prev.value

\* the places of the products of the list that have the key `field`
Holding(prev, field) ==
    {n \in 1..Len(ListOf(prev)) : field \in DOMAIN ListOf(prev)[n]}

\* the elements of seq at the places `kept`, in the order of seq
Pick(seq, kept) ==
    [r \in 1..Cardinality(kept) |->
        seq[CHOOSE n \in kept : Cardinality({k \in kept : k < n}) = r - 1]]

\* a list comprehension [p for p in filtered_products if ...] whose
\* condition reads p[field] and holds at the places `kept`: KeyError as soon
\* as one element lacks the key; skipped once an earlier statement has raised
FilterBy(prev, field, kept) ==
    IF prev.raised THEN prev
    ELSE IF Holding(prev, field) # 1..Len(prev.value) THEN Raised("KeyError")
    ELSE Returned(Pick(prev.value, kept))

\* the order of two sort keys, each a pair
KeyLess(a, b) ==
    \/ a[1] < b[1]
    \/ (a[1] = b[1] /\ a[2] < b[2])

\* RankOf for a sort that is not stable: equal keys change places
RankOfUnstable(keys, i) ==
    1 + Cardinality({j \in 1..Len(keys) :
                        \/ KeyLess(keys[j], keys[i])
                        \/ (~KeyLess(keys[i], keys[j]) /\ j > i)})

\* the place the element i gets in a stable ascending sort by the keys
RankOf(keys, i) ==
    1 + Cardinality({j \in 1..Len(keys) :
                        \/ KeyLess(keys[j], keys[i])
                        \/ (~KeyLess(keys[i], keys[j]) /\ j < i)})

\* seq with its element i moved to the place ranks[i]
Permuted(seq, ranks) ==
    [r \in 1..Len(seq) |-> seq[CHOOSE i \in 1..Len(seq) : ranks[i] = r]]

\* the result of list.sort(key=...), keys[i] the key of seq[i]: each key is
\* computed once, then the list is ordered
SortedBy(seq, keys) ==
    Permuted(seq, [i \in 1..Len(keys) |-> RankOf(keys, i)] \o <<>>)

\* the fields the free-text condition reads, in the order of its `or` chain
QueryFields == <<"name", "description", "category", "brand", "color">>

\* the `or` chain decided by its field n: a missing key raises
FieldOutcome(p, n) ==
    IF n = 0 THEN "nomatch"
    ELSE IF QueryFields[n] \notin DOMAIN p THEN "raise"
    ELSE "match"

\* word in p['name'].lower() or ... or word in p['color'].lower(): the chain
\* stops at the first field that holds the word, and raises at a missing one
WordOutcome(p, word) ==
    FieldOutcome(p, MinOrZero({n \in 1..Len(QueryFields) :
                                  \/ QueryFields[n] \notin DOMAIN p
                                  \/ Contains(Lower(p[QueryFields[n]]), word)}))

WordOutcomeAt(p, query_words, n) ==
    IF n = 0 THEN "nomatch" ELSE WordOutcome(p, query_words[n])

\* any(... for word in query_words): stops at the first word that matches
QueryOutcome(p, query_words) ==
    WordOutcomeAt(p, query_words,
        MinOrZero({n \in 1..Len(query_words) : WordOutcome(p, query_words[n]) # "nomatch"}))

\* lines 59-68: the free-text filter, query_words = query.lower().split()
FilterByWords(prev, query_words) ==
    IF prev.raised THEN prev
    ELSE IF \E n \in 1..Len(prev.value) : QueryOutcome(prev.value[n], query_words) = "raise"
    THEN Raised("KeyError")
    ELSE Returned(Pick(prev.value,
            {n \in 1..Len(prev.value) : QueryOutcome(prev.value[n], query_words) = "match"}))

\* lines 43-44
CategoryStage(prev, category) ==
    IF TruthyStr(category)
    THEN FilterBy(prev, "category",
            {n \in Holding(prev, "category") : prev.value[n].category = Val(category)})
    ELSE prev

\* PriceStage without its filter
PriceStageSkipped(prev, max_price) == prev

\* lines 46-47
PriceStage(prev, max_price) ==
    IF TruthyInt(max_price)
    THEN FilterBy(prev, "price",
            {n \in Holding(prev, "price") : prev.value[n].price <= Val(max_price)})
    ELSE prev

\* lines 49-50
BrandStage(prev, brand) ==
    IF TruthyStr(brand)
    THEN FilterBy(prev, "brand",
            {n \in Holding(prev, "brand") :
                Contains(Lower(prev.value[n].brand), Lower(Val(brand)))})
    ELSE prev

\* lines 52-53
ColorStage(prev, color) ==
    IF TruthyStr(color)
    THEN FilterBy(prev, "color",
            {n \in Holding(prev, "color") :
                Contains(Lower(prev.value[n].color), Lower(Val(color)))})
    ELSE prev

\* lines 55-56
PlatformStage(prev, platform) ==
    IF TruthyStr(platform)
    THEN FilterBy(prev, "platform",
            {n \in Holding(prev, "platform") :
                Lower(prev.value[n].platform) = Lower(Val(platform))})
    ELSE prev

\* lines 58-68
QueryStage(prev, query) ==
    IF TruthyStr(query)
    THEN FilterByWords(prev, Split(Lower(Val(query))))
    ELSE prev

\* ExclusionStage looking for 'non-apple' in the query as typed
ExclusionStageAsTyped(prev, query) ==
    IF TruthyStr(query) /\ Contains(Val(query), "non-apple")
    THEN FilterBy(prev, "brand",
            {n \in Holding(prev, "brand") :
                ~Contains(Lower(prev.value[n].brand), "apple")})
    ELSE prev

\* lines 70-71
ExclusionStage(prev, query) ==
    IF TruthyStr(query) /\ Contains(Lower(Val(query)), "non-apple")
    THEN FilterBy(prev, "brand",
            {n \in Holding(prev, "brand") :
                ~Contains(Lower(prev.value[n].brand), "apple")})
    ELSE prev

\* line 73: filtered_products.sort(key=lambda x: (-x['rating'], x['price']))
SortByRating(prev) ==
    IF prev.raised THEN prev
    ELSE IF Holding(prev, "rating") \cap Holding(prev, "price") # 1..Len(prev.value)
    THEN Raised("KeyError")
    ELSE Returned(SortedBy(prev.value,
            [n \in 1..Len(prev.value) |->
                <<-prev.value[n].rating, prev.value[n].price>>] \o <<>>))

\* SearchOutcome of a search that filters and sorts self.products itself
SearchOutcomeAliased(catalog, in_place, sorted) ==
    [result  |-> sorted,
     catalog |-> IF ~sorted.raised THEN sorted.value ELSE catalog]

\* what the call returns or raises (result), and self.products after it
\* (catalog): when no filter was applied filtered_products is self.products
\* itself, and the sort has ordered the stored catalog in place
SearchOutcome(catalog, in_place, sorted) ==
    [result  |-> sorted,
     catalog |-> IF in_place /\ ~sorted.raised THEN sorted.value ELSE catalog]

\* search_products on the catalog `catalog`.  Every argument is Optional.
search_products(catalog, query, category, max_price, brand, color, platform) ==
    SearchOutcome(catalog,
        /\ \A a \in {query, category, brand, color, platform} : ~TruthyStr(a)
        /\ ~TruthyInt(max_price),
        SortByRating(
          ExclusionStage(
            QueryStage(
              PlatformStage(
                ColorStage(
                  BrandStage(
                    PriceStage(CategoryStage(Returned(catalog), category), max_price),
                    brand),
                  color),
                platform),
              query),
            query)))

\* add_product: self.products.append(product)
add_product(catalog, product) == Append(catalog, product)

\* get_product_by_id: the product at the index product_id of self.products,
\* None for an index outside the list
get_product_by_id(catalog, product_id) ==
    IF 0 <= product_id /\ product_id < Len(catalog)
    THEN Some(catalog[product_id + 1])
    ELSE None

---------------------------------------------------------------------------
(* ShoppingQueryProcessor: src/src/shopping_processor.py                   *)

\* the number of the words that are in the text, each place counted
WordsIn(words, text) ==
    Cardinality({n \in 1..Len(words) : Contains(text, words[n])})

\* the number of the words that are in both texts
WordsInBoth(words, text, other) ==
    Cardinality({n \in 1..Len(words) : Contains(text, words[n]) /\ Contains(other, words[n])})

\* the keys _filter_and_rank reads of every product
ScoredFields(analysis) ==
    {"name", "description", "brand", "color", "rating"}
      \cup (IF analysis.max_budget # 0 THEN {"price"} ELSE {})
      \cup (IF TruthyStr(analysis.category) THEN {"category"} ELSE {})

\* the scores of one call are fractions over this denominator: 20 for the
\* rating term (rating * 1.5 is 3/20 per tenth), times max_budget for the
\* price term
ScoreDen(analysis) == 20 * (IF analysis.max_budget # 0 THEN analysis.max_budget ELSE 1)

\* lines 70-96, the whole-number terms: 2 per query token found in the
\* product text, 3 per colour of COLOR_KEYWORDS found in the query and in the
\* product's colour, 2 for the brand, 1 for the category
ScoreUnits(product, query_lower, analysis) ==
    2 * WordsIn(Split(query_lower),
                Lower(product.name \o " " \o product.description \o " "
                        \o product.brand \o " " \o product.color))
      + 3 * WordsInBoth(COLOR_KEYWORDS, query_lower, Lower(product.color))
      + (IF Contains(query_lower, Lower(product.brand)) THEN 2 ELSE 0)
      + (IF TruthyStr(analysis.category) /\ Some(product.category) = analysis.category
         THEN 1 ELSE 0)

\* lines 86-91, times the denominator den: (1.0 - price_ratio) * 2 up to the
\* budget, -5 above it, nothing when max_budget is 0
PriceTerm(price, max_budget, den) ==
    IF max_budget = 0 THEN 0
    ELSE IF price <= max_budget THEN 40 * (max_budget - price)
    ELSE (-5) * den

\* the score of a product, times ScoreDen(analysis)
ScoreNum(product, query, analysis) ==
    ScoreDen(analysis) * ScoreUnits(product, Lower(query), analysis)
      + PriceTerm(product.price, analysis.max_budget, ScoreDen(analysis))
      + 3 * product.rating * (ScoreDen(analysis) \div 20)

\* _filter_and_rank giving the products back in the order it got them
FilterAndRankUnranked(found, query, analysis) ==
    IF found = <<>> THEN Returned(<<>>)
    ELSE IF \E n \in 1..Len(found) : ScoredFields(analysis) \ DOMAIN found[n] # {}
    THEN Raised("KeyError")
    ELSE Returned(found)

\* the products of ranked whose score is not negative
ScoredAboveZero(ranked, query, analysis) ==
    Pick(ranked, {n \in 1..Len(ranked) : ScoreNum(ranked[n], query, analysis) >= 0})

\* _filter_and_rank leaving out the products with a negative score
FilterAndRankAboveZero(found, query, analysis) ==
    IF found = <<>> THEN Returned(<<>>)
    ELSE IF \E n \in 1..Len(found) : ScoredFields(analysis) \ DOMAIN found[n] # {}
    THEN Raised("KeyError")
    ELSE Returned(ScoredAboveZero(SortedBy(found,
            [n \in 1..Len(found) |-> <<-ScoreNum(found[n], query, analysis), 0>>] \o <<>>),
            query, analysis))

\* _filter_and_rank with a sort that puts the later of two equal scores first
FilterAndRankTiesReversed(found, query, analysis) ==
    IF found = <<>> THEN Returned(<<>>)
    ELSE IF \E n \in 1..Len(found) : ScoredFields(analysis) \ DOMAIN found[n] # {}
    THEN Raised("KeyError")
    ELSE Returned(SortedBy(found,
            [n \in 1..Len(found) |-> <<-ScoreNum(found[n], query, analysis), -n>>] \o <<>>))

\* _filter_and_rank: every product scored, then sorted by score, highest
\* first (a stable sort: equal scores keep the order of `found`)
_filter_and_rank(found, query, analysis) ==
    IF found = <<>> THEN Returned(<<>>)
    ELSE IF \E n \in 1..Len(found) : ScoredFields(analysis) \ DOMAIN found[n] # {}
    THEN Raised("KeyError")
    ELSE Returned(SortedBy(found,
            [n \in 1..Len(found) |-> <<-ScoreNum(found[n], query, analysis), 0>>] \o <<>>))

\* Top3 with the slice [:4]
Top4(seq) == SubSeq(seq, 1, IF Len(seq) < 4 THEN Len(seq) ELSE 4)

\* filtered_results[:3]
Top3(seq) == SubSeq(seq, 1, IF Len(seq) < 3 THEN Len(seq) ELSE 3)

\* Except as `except (ValueError, OverflowError)`: a KeyError propagates
ExceptValueError(user_query, e) ==
    IF e = "KeyError" THEN Raised(e)
    ELSE Returned([success |-> FALSE, error |-> e, query |-> user_query, products |-> <<>>])

\* lines 51-58: `except Exception` catches whatever a stage has raised and
\* the call returns the failure dict; error stands for str(e) and holds the
\* name of the exception's class
Except(user_query, e) ==
    Returned([success |-> FALSE, error |-> e, query |-> user_query, products |-> <<>>])

\* lines 38-49, ranked the outcome of _filter_and_rank
Respond(user_query, analysis, search, ranked) ==
    IF ranked.raised
    THEN [result |-> Except(user_query, ranked.error), catalog |-> search.catalog]
    ELSE [result  |-> Returned([success     |-> TRUE,
                                query       |-> user_query,
                                analysis    |-> analysis,
                                products    |-> Top3(ranked.value),
                                total_found |-> Len(search.result.value),
                                category    |-> analysis.category,
                                max_budget  |-> analysis.max_budget]),
          catalog |-> search.catalog]

\* lines 33-37, search the outcome of search_products
Rank(user_query, analysis, search) ==
    IF search.result.raised
    THEN [result |-> Except(user_query, search.result.error), catalog |-> search.catalog]
    ELSE Respond(user_query, analysis, search,
                 _filter_and_rank(search.result.value, user_query, analysis))

\* lines 26-30, a the outcome of analyze_budget
Retrieve(catalog, user_query, a) ==
    IF a.raised
    THEN [result |-> Except(user_query, a.error), catalog |-> catalog]
    ELSE Rank(user_query, a.value,
              search_products(catalog, Some(user_query), a.value.category,
                              Some(a.value.max_budget), None, None, None))

\* process_query on the catalog `catalog`: result is what the call returns
\* or raises, catalog is self.database.products after the call
process_query(catalog, user_query) ==
    Retrieve(catalog, user_query, analyze_budget(user_query))

---------------------------------------------------------------------------
(* Inputs of the model                                                     *)

\* the products add_product appends, each of them once at most
AddPool ==
    { [name |-> "MacBook Air", price |-> 89990, rating |-> 47,
       description |-> "Apple laptop", category |-> "electronics",
       brand |-> "Apple", color |-> "silver", platform |-> "Amazon"],
      [name |-> "Blue Canvas Shoes", price |-> 3500, rating |-> 45,
       description |-> "Casual shoes", category |-> "apparel",
       brand |-> "Bata", color |-> "navy blue", platform |-> "Amazon"],
      \* the same shoes from another shop: rating, price and score tie
      [name |-> "Blue Canvas Shoes", price |-> 3500, rating |-> 45,
       description |-> "Casual shoes", category |-> "apparel",
       brand |-> "Bata", color |-> "navy blue", platform |-> "Flipkart"],
      \* a record without the key 'brand'
      [name |-> "Plain Sandals", price |-> 999, rating |-> 40,
       description |-> "", category |-> "apparel",
       color |-> "brown", platform |-> "Amazon"] }

\* the longest catalog add_product builds
MaxCatalog == 4

\* a product that is given away
FreeSample ==
    [name |-> "Shoe Laces", price |-> 0, rating |-> 42,
     description |-> "Free with any shoes", category |-> "apparel",
     brand |-> "Bata", color |-> "white", platform |-> "Amazon"]

\* the products add_product appends where the catalog lists free products
FreePool == AddPool \cup {FreeSample}

Ten == "1111111111"

Hundred == Ten \o Ten \o Ten \o Ten \o Ten \o Ten \o Ten \o Ten \o Ten \o Ten

\* an amount of 310 digits: more than a float holds
HugeAmount == Hundred \o Hundred \o Hundred \o Ten

\* the fragments queries are put together from
Fragments ==
    { "", "shoes", "Laptop", "smartphone", "non-Apple", "cheap", "premium", "sneakers",
      "not apple laptop", "value",
      "between 9000 and 700", "between 700 and 0",
      "under 0", "under 3000", "Under Rs. 50,000", "below 30k", "upto 99.5",
      "around 5000", "between 40000 and 80000", "under", "max", "5000", "dreß" }

\* the most fragments in one query
MaxFragments == 2

\* the queries of at most n fragments, joined by single spaces
RECURSIVE Phrases(_)
Phrases(n) ==
    IF n <= 1 THEN Fragments
    ELSE LET shorter == Phrases(n - 1)
         IN  shorter \cup {q \o " " \o f : q \in shorter, f \in Fragments}

\* every keyword of CATEGORY_KEYWORDS
CategoryWords ==
    UNION { {CATEGORY_KEYWORDS[n][2][k] : k \in 1..Len(CATEGORY_KEYWORDS[n][2])} :
              n \in 1..Len(CATEGORY_KEYWORDS) }

\* queries with an amount that is too long for a float
HugeQueries == { "under " \o HugeAmount, "cheap shoes under " \o HugeAmount }

\* the queries given to analyze_budget: the phrases, every category keyword
\* on its own, and the queries with a huge amount
AnalyzeQueries == Phrases(MaxFragments) \cup CategoryWords \cup HugeQueries

\* the queries given to process_query
ProcessQueries ==
    { "", "   ", "shoes", "red shoes under 3000", "shoes under 5000", "shoes under 0",
      "non-Apple laptop", "NON-APPLE macbook", "not apple laptop", "laptop under 90000",
      "apple", "sandals", "@#$%", "a under 90000", "under " \o HugeAmount }

\* the arguments given to search_products
SearchQueries == {None, Some(""), Some("  "), Some("shoes"), Some("Non-Apple air")}

SearchCategories == {None, Some(""), Some("apparel")}

SearchPrices == {None, Some(0), Some(2499), Some(3500)}

\* the products of the lists given to _filter_and_rank: the ones of the
\* catalogs, and one whose rating is too low to make up for the penalty
Candidates ==
    AddPool \cup
    { FallbackCatalog[1],
      [name |-> "Worn Boots", price |-> 9000, rating |-> 10,
       description |-> "Second hand", category |-> "apparel",
       brand |-> "Generic", color |-> "black", platform |-> "Flipkart"] }

\* the longest list given to _filter_and_rank
MaxCandidates == 2

\* the lists given to _filter_and_rank, a product may stand in one twice
CandidateLists == UNION { [1..k -> Candidates] : k \in 0..MaxCandidates }

\* the queries given to _filter_and_rank
RankQueries == { "", "red shoes under 3000", "navy blue shoes", "Bata Shoes", "nike nike" }

\* the analyses given to _filter_and_rank: the two keys it reads
RankAnalyses ==
    [category : {None, Some("apparel"), Some("mobiles")}, max_budget : {0, 3000, 50000}]

---------------------------------------------------------------------------
(* The state machine.  products is the catalog the database holds          *)
(* (self.products); response is the value the call in progress has         *)
(* produced and its caller has not taken yet.  Calls are synchronous: one  *)
(* call at a time.                                                         *)

NoResponse == [op |-> "none"]

\* MockProductDatabase.__init__ (the data file is not part of the sources)
Init ==
    /\ products = FallbackCatalog
    /\ response = NoResponse

\* BudgetAnalyzer.analyze_budget(query)
AnalyzeBudget(query) ==
    /\ response = NoResponse
    /\ response' = [op |-> "analyze_budget", query |-> query, result |-> analyze_budget(query)]
    /\ UNCHANGED products

\* the state after process_query has returned r.result
Processed(user_query, r) ==
    /\ products' = r.catalog
    /\ response' = [op |-> "process_query", query |-> user_query,
                    catalog |-> products, result |-> r.result]

\* ShoppingQueryProcessor.process_query(user_query)
ProcessQuery(user_query) ==
    /\ response = NoResponse
    /\ Processed(user_query, process_query(products, user_query))

\* the state after search_products has returned or raised r.result
Searched(query, category, max_price, r) ==
    /\ products' = r.catalog
    /\ response' = [op |-> "search_products", query |-> query, category |-> category,
                    max_price |-> max_price, catalog |-> products, result |-> r.result]

\* MockProductDatabase.search_products(query, category, max_price)
SearchProducts(query, category, max_price) ==
    /\ response = NoResponse
    /\ Searched(query, category, max_price,
                search_products(products, query, category, max_price, None, None, None))

\* MockProductDatabase.add_product(product)
AddProduct(product) ==
    /\ response = NoResponse
    /\ Len(products) < MaxCatalog
    /\ \A n \in 1..Len(products) : products[n] # product
    /\ products' = add_product(products, product)
    /\ UNCHANGED response

\* ShoppingQueryProcessor._filter_and_rank(products, query, analysis)
FilterAndRank(found, query, analysis) ==
    /\ response = NoResponse
    /\ response' = [op |-> "_filter_and_rank", found |-> found, query |-> query,
                    analysis |-> analysis,
                    result |-> _filter_and_rank(found, query, analysis)]
    /\ UNCHANGED products

\* the caller takes the returned value
Return ==
    /\ response # NoResponse
    /\ response' = NoResponse
    /\ UNCHANGED products

Next ==
    \/ \E q \in ProcessQueries : ProcessQuery(q)
    \/ \E q \in SearchQueries, c \in SearchCategories, m \in SearchPrices :
          SearchProducts(q, c, m)
    \/ \E p \in AddPool : AddProduct(p)
    \/ Return

Spec == Init /\ [][Next]_vars

\* the analyzer alone, over the queries put together from Fragments
NextAnalyze ==
    \/ \E q \in AnalyzeQueries : AnalyzeBudget(q)
    \/ Return

SpecAnalyze == Init /\ [][NextAnalyze]_vars

\* the pipeline alone, on catalogs that may list a free product
NextPipeline ==
    \/ \E q \in ProcessQueries : ProcessQuery(q)
    \/ \E p \in FreePool : AddProduct(p)
    \/ Return

SpecPipeline == Init /\ [][NextPipeline]_vars

\* the scorer alone, over the lists of Candidates
NextRank ==
    \/ \E found \in CandidateLists, q \in RankQueries, a \in RankAnalyses :
          FilterAndRank(found, q, a)
    \/ Return

SpecRank == Init /\ [][NextRank]_vars

---------------------------------------------------------------------------
(* Properties of analyze_budget, checked under SpecAnalyze                 *)

\* analyze_budget has returned its dict
Analyzed == response.op = "analyze_budget" /\ ~response.result.raised

\* C1: whenever specific_budget is set (not None, 0 included), budget_type
\* is 'specific' and max_budget equals specific_budget
C1_SpecificBudgetDecidesCeiling ==
    (Analyzed /\ ~IsNone(response.result.value.specific_budget)) =>
        /\ response.result.value.budget_type = "specific"
        /\ response.result.value.max_budget = Val(response.result.value.specific_budget)

\* the 'under N' phrases of Fragments, lowercased, with the whole number N
\* each one states
UnderAmounts ==
    { <<"under 0", 0>>, <<"under 3000", 3000>>, <<"under rs. 50,000", 50000>> }

\* the number of places of s where k starts
Occurrences(s, k) == Cardinality({i \in 1..Len(s) : StartsAt(s, i, k)})

\* phrase is in q with its amount ending there, and q has no other price
\* phrase: no second 'under', none of the other words a pattern starts with
OnlyPricePhrase(q, phrase) ==
    /\ \E i \in 1..Len(q) :
          /\ StartsAt(q, i, phrase)
          /\ Char(q, i + Len(phrase)) \notin Digits \cup {",", "."}
    /\ Occurrences(q, "under") = 1
    /\ ~AnyIn(<<"below", "less than", "upto", "around", "about", "between">>, q)

\* C2: a query that contains 'under ' followed by a whole number N, N >= 0,
\* with or without commas and 'Rs.', gets max_budget N and budget_type 'specific'
C2_UnderAmountIsCeiling ==
    Analyzed =>
        \A u \in UnderAmounts :
            OnlyPricePhrase(Lower(response.query), u[1]) =>
                /\ response.result.value.max_budget = u[2]
                /\ response.result.value.budget_type = "specific"

\* the ceiling BUDGET_RANGES[category][tier], 50000 when category is None
IsRangeCeiling(category, tier, ceiling) ==
    IF IsNone(category) THEN ceiling = 50000
    ELSE \E n \in 1..Len(BUDGET_RANGES) :
            /\ BUDGET_RANGES[n][1] = Val(category)
            /\ ceiling = BUDGET_RANGES[n][2][tier]

\* C3: a query from which no price is extracted, and so every query with
\* none of the budget-signal words, has specific_budget None, budget_type
\* one of low, medium and high, and max_budget the ceiling of BUDGET_RANGES
\* for its category and tier, 50000 when no category is detected
C3_NoPriceGivesRangeCeiling ==
    Analyzed =>
        /\ ~AnyIn(budget_keywords, Lower(response.query)) =>
              IsNone(response.result.value.specific_budget)
        /\ IsNone(response.result.value.specific_budget) =>
              /\ response.result.value.budget_type \in {"low", "medium", "high"}
              /\ IsRangeCeiling(response.result.value.category,
                                response.result.value.budget_type,
                                response.result.value.max_budget)

\* 'cheap phone': a tier word, a category word, no price
C3_Witness ==
    /\ Analyzed
    /\ response.query = "cheap smartphone"
    /\ IsNone(response.result.value.specific_budget)
    /\ response.result.value.category = Some("mobiles")
    /\ response.result.value.budget_type = "low"
    /\ response.result.value.max_budget = 15000

\* C4: analyze_budget raises for no string, and for the empty and the
\* whitespace-only query returns category None, budget_type 'low',
\* specific_budget None and max_budget 50000
C4_AnalyzeNeverRaises ==
    response.op = "analyze_budget" =>
        /\ ~response.result.raised
        /\ Strip(response.query) = "" =>
              /\ IsNone(response.result.value.category)
              /\ response.result.value.budget_type = "low"
              /\ IsNone(response.result.value.specific_budget)
              /\ response.result.value.max_budget = 50000

\* two outcomes of analyze_budget agree: both raise, or both return the
\* same category, budget_type, specific_budget and max_budget
Agree(a, b) ==
    IF a.raised \/ b.raised THEN a.raised = b.raised
    ELSE /\ a.value.category = b.value.category
         /\ a.value.budget_type = b.value.budget_type
         /\ a.value.specific_budget = b.value.specific_budget
         /\ a.value.max_budget = b.value.max_budget

\* C13: analyze_budget(q) and analyze_budget(q.upper()) agree on category,
\* budget_type, specific_budget and max_budget, for every query q
C13_UpperCaseAgrees ==
    response.op = "analyze_budget" =>
        Agree(response.result, analyze_budget(Upper(response.query)))

\* C14: analyze_budget(q) and analyze_budget(n(q)), n(q) being q trimmed
\* and lower-cased, agree on category, budget_type, specific_budget and
\* max_budget, and n(n(q)) = n(q)
C14_NormalisedQueryAgrees ==
    response.op = "analyze_budget" =>
        /\ Agree(response.result, analyze_budget(Strip(Lower(response.query))))
        /\ Strip(Lower(Strip(Lower(response.query)))) = Strip(Lower(response.query))

\* 'Laptop ': a capital and a trailing blank, and a category found
C14_Witness ==
    /\ Analyzed
    /\ response.query = "Laptop "
    /\ Strip(Lower(response.query)) = "laptop"
    /\ response.result.value.category = Some("electronics")

\* the words the three price patterns start with, in the order of the
\* pattern list
PatternWords == <<UnderWords, AroundWords, <<"between">> >>

\* price phrases of Fragments, lower-cased: the pattern each one matches and
\* the amount it states
PricePhrases ==
    { <<"under 0", 1, 0>>, <<"under 3000", 1, 3000>>, <<"under rs. 50,000", 1, 50000>>,
      <<"around 5000", 2, 5000>>, <<"between 40000 and 80000", 3, 80000>> }

\* the number of places of q where a word of pattern n starts
PatternWordCount(q, n) ==
    Cardinality({i \in 1..Len(q) :
                    \E k \in 1..Len(PatternWords[n]) : StartsAt(q, i, PatternWords[n][k])})

\* x is in q, it is the only phrase of its pattern, and q has no phrase of
\* a pattern that comes earlier in the list
HighestPriority(q, x) ==
    /\ Contains(q, x[1])
    /\ PatternWordCount(q, x[2]) = 1
    /\ \A n \in 1..(x[2] - 1) : PatternWordCount(q, n) = 0

\* C18: when a query matches more than one price pattern, the price comes
\* from the pattern that is first in the order (under|below|less than|upto),
\* (around|about), (between ... and ...), wherever the phrases stand
C18_PatternPriority ==
    Analyzed =>
        \A x, y \in PricePhrases :
            (x[2] < y[2] /\ HighestPriority(Lower(response.query), x)
                         /\ Contains(Lower(response.query), y[1])) =>
                response.result.value.specific_budget = Some(x[3])

\* 'around 5000 under 3000' gives 3000
C18_Witness ==
    /\ Analyzed
    /\ response.query = "around 5000 under 3000"
    /\ response.result.value.specific_budget = Some(3000)

\* the 'between A and B' phrases of Fragments with the second amount B
BetweenPhrases ==
    { <<"between 40000 and 80000", 80000>>, <<"between 9000 and 700", 700>>,
      <<"between 700 and 0", 0>> }

\* the only price phrase of q is the 'between' phrase x
OnlyBetween(q, x) ==
    /\ Contains(q, x[1])
    /\ PatternWordCount(q, 1) = 0
    /\ PatternWordCount(q, 2) = 0
    /\ PatternWordCount(q, 3) = 1

\* C19: when the only price pattern a query matches is 'between A and B',
\* max_budget is the second amount B and budget_type is 'specific', for
\* every A and B, A > B included
C19_BetweenTakesSecondAmount ==
    Analyzed =>
        \A x \in BetweenPhrases :
            OnlyBetween(Lower(response.query), x) =>
                /\ response.result.value.max_budget = x[2]
                /\ response.result.value.budget_type = "specific"

\* price phrases of Fragments, lower-cased, with floor(v) and floor(v * 1000)
\* of the amount v each one states
AmountPhrases ==
    { <<"under 0", 0, 0>>, <<"under 3000", 3000, 3000000>>,
      <<"under rs. 50,000", 50000, 50000000>>, <<"below 30k", 30, 30000>>,
      <<"upto 99.5", 99, 99500>>, <<"around 5000", 5000, 5000000>> }

\* x is in q with its amount ending there, and no other word a price pattern
\* starts with is in q
OnlyAmount(q, x) ==
    /\ \E i \in 1..Len(q) :
          /\ StartsAt(q, i, x[1])
          /\ Char(q, i + Len(x[1])) \notin Digits \cup {",", "."}
    /\ PatternWordCount(q, 1) + PatternWordCount(q, 2) + PatternWordCount(q, 3) = 1

\* q has a 'k' that ends a number ('30k') or stands as a word of its own
KSuffixOrToken(q) ==
    \E i \in 1..Len(q) :
        /\ Char(q, i) = "k"
        /\ \/ Char(q, i - 1) \in Digits
           \/ Char(q, i - 1) \in Whitespace \cup {""} /\ Char(q, i + 1) \in Whitespace \cup {""}

\* C20: an amount that parses to v gives the price floor(v * 1000) when
\* v < 100 and the query has a k suffix or token, and floor(v) otherwise
C20_KShorthand ==
    Analyzed =>
        \A x \in AmountPhrases :
            OnlyAmount(Lower(response.query), x) =>
                response.result.value.specific_budget =
                    Some(IF x[2] < 100 /\ KSuffixOrToken(Lower(response.query))
                         THEN x[3] ELSE x[2])

---------------------------------------------------------------------------
(* Properties of process_query and search_products, checked under Spec     *)

\* process_query has returned a success dict
Succeeded ==
    /\ response.op = "process_query"
    /\ ~response.result.raised
    /\ response.result.value.success

\* the indices of the elements of seq
Indices(seq) == 1..Len(seq)

\* C5: every product process_query returns has a price of at most the
\* max_budget it reports and, when a category is detected, that category
C5_ProductsWithinBudgetAndCategory ==
    Succeeded =>
        \A n \in Indices(response.result.value.products) :
            /\ response.result.value.products[n].price <= response.result.value.max_budget
            /\ ~IsNone(response.result.value.category) =>
                  response.result.value.products[n].category
                      = Val(response.result.value.category)

\* 'shoes' on a catalog with shoes above the ceiling of 3000: products come
\* back, and the catalog holds one of the category that costs more
C5_Witness ==
    /\ Succeeded
    /\ response.result.value.products # <<>>
    /\ ~IsNone(response.result.value.category)
    /\ \E n \in Indices(response.catalog) :
          /\ response.catalog[n].category = Val(response.result.value.category)
          /\ response.catalog[n].price > response.result.value.max_budget

\* what search_products returns to process_query for the analysis a
RetrievedFor(catalog, user_query, a) ==
    search_products(catalog, Some(user_query), a.category, Some(a.max_budget),
                    None, None, None).result

RetrievalOrRankingRaises(user_query, analysis, retrieved) ==
    \/ retrieved.raised
    \/ _filter_and_rank(retrieved.value, user_query, analysis).raised

\* one of the three stages of process_query raises, a the outcome of
\* analyze_budget
StageRaises(catalog, user_query, a) ==
    \/ a.raised
    \/ RetrievalOrRankingRaises(user_query, a.value,
                                RetrievedFor(catalog, user_query, a.value))

\* C7: process_query never raises: when the extraction, the retrieval or the
\* scoring raises, it returns success False with an error message and
\* products []
C7_ProcessQueryNeverRaises ==
    response.op = "process_query" =>
        /\ ~response.result.raised
        /\ ~response.result.value.success =>
              /\ "error" \in DOMAIN response.result.value
              /\ response.result.value.products = <<>>
        /\ StageRaises(response.catalog, response.query, analyze_budget(response.query)) =>
              ~response.result.value.success

\* a catalog record without 'brand' has made a stage raise KeyError
C7_Witness ==
    /\ response.op = "process_query"
    /\ ~response.result.raised
    /\ ~response.result.value.success
    /\ response.result.value.error = "KeyError"
    /\ \E n \in Indices(response.catalog) : "brand" \notin DOMAIN response.catalog[n]

\* search_products has returned a list
Found == response.op = "search_products" /\ ~response.result.raised

\* C8: for every catalog and every price ceiling C, 0 included, every product
\* search_products(max_price=C) returns has a price of at most C
C8_MaxPriceIsCeiling ==
    (Found /\ ~IsNone(response.max_price)) =>
        \A n \in Indices(response.result.value) :
            response.result.value[n].price <= Val(response.max_price)

\* one of the whitespace-separated words of the query text is in one of the
\* five text fields of p, letter case apart
TokenIn(p, text) ==
    \E n \in Indices(Split(Lower(text))) :
        \E field \in {"name", "description", "category", "brand", "color"} \cap DOMAIN p :
            Contains(Lower(p[field]), Split(Lower(text))[n])

\* p satisfies every criterion that is not None
Satisfies(p, query, category, max_price) ==
    /\ IsNone(category) \/ p.category = Val(category)
    /\ IsNone(max_price) \/ p.price <= Val(max_price)
    /\ IsNone(query) \/ TokenIn(p, Val(query))

\* the number of times x is in the list seq
Copies(seq, x) == Cardinality({n \in 1..Len(seq) : seq[n] = x})

\* C9: search_products returns exactly the products of the catalog that
\* satisfy every criterion supplied (not None): category equality,
\* price <= max_price, and for a query text, the empty one included, a word
\* of it in name, description, category, brand or color
C9_ExactlyTheMatches ==
    Found =>
        \A n \in Indices(response.catalog) :
            Copies(response.result.value, response.catalog[n])
                = IF Satisfies(response.catalog[n], response.query,
                               response.category, response.max_price)
                  THEN Copies(response.catalog, response.catalog[n])
                  ELSE 0

\* no product of the sequence found has 'apple' in its brand
NoAppleIn(found) ==
    \A n \in Indices(found) : ~Contains(Lower(found[n].brand), "apple")

\* C10: when the query holds 'non-apple' in any letter case, no product
\* search_products returns, and so none process_query returns, has a brand
\* that contains 'apple'
C10_NonAppleExcludesApple ==
    /\ (Found /\ ~IsNone(response.query)
              /\ Contains(Lower(Val(response.query)), "non-apple")) =>
          NoAppleIn(response.result.value)
    /\ (Succeeded /\ Contains(Lower(response.query), "non-apple")) =>
          NoAppleIn(response.result.value.products)

\* 'Non-Apple air' on a catalog with the MacBook Air: products come back,
\* the Apple one that has the word 'air' is not among them
C10_Witness ==
    /\ Found
    /\ response.query = Some("Non-Apple air")
    /\ response.result.value # <<>>
    /\ \E n \in Indices(response.catalog) :
          /\ Contains(Lower(response.catalog[n].brand), "apple")
          /\ Satisfies(response.catalog[n], response.query,
                       response.category, response.max_price)

\* the brand-exclusion phrases _detect_category recognises
ExclusionPhrases == <<"non-apple", "not apple", "excluding apple">>

\* C11: when the query holds one of the brand-exclusion phrases the analyzer
\* recognises ('non-apple', 'not apple', 'excluding apple'), no product
\* process_query returns has a brand that contains 'apple'
C11_EveryExclusionPhraseExcludes ==
    (Succeeded /\ AnyIn(ExclusionPhrases, Lower(response.query))) =>
        NoAppleIn(response.result.value.products)

\* C12: as long as no product is added, process_query(q) returns the same
\* result whatever calls come in between: every step that is not add_product
\* leaves the result of process_query(q) on the stored catalog as it was,
\* for every q
C12_ProcessQueryDeterministic ==
    [][(Len(products') = Len(products) /\ products' # products) =>
          \A q \in ProcessQueries :
              process_query(products', q).result = process_query(products, q).result]_vars

\* process_query returns two products or more from a catalog that a search
\* without filters has sorted in place: the fallback product, stored first
\* by the constructor, is first no more
C12_Witness ==
    /\ Succeeded
    /\ Len(response.result.value.products) >= 2
    /\ response.catalog[1] # FallbackCatalog[1]

ReturnedScore(n) ==
    ScoreNum(response.result.value.products[n], response.query,
             response.result.value.analysis)

C16_ProcessQueryKeepsCatalog ==
    response.op = "process_query" => products = response.catalog

\* process_query has returned products from a catalog that is not in the
\* order of the database's sort
C16_Witness ==
    /\ Succeeded
    /\ response.result.value.products # <<>>
    /\ Len(response.catalog) >= 2
    /\ response.catalog[1].rating < response.catalog[2].rating

\* the weight tables the configuration may hold: the one of config.py, and
\* one with another weight for a keyword match
WeightTables == {SCORING_WEIGHTS, [SCORING_WEIGHTS EXCEPT !.keyword_match = 5]}

\* the scoring formula with the weights of the table w, times ScoreDen
WeightedScore(w, product, query, analysis) ==
    ScoreDen(analysis)
        * ( w.keyword_match
              * WordsIn(Split(Lower(query)),
                        Lower(product.name \o " " \o product.description \o " "
                                \o product.brand \o " " \o product.color))
          + w.color_match * WordsInBoth(COLOR_KEYWORDS, Lower(query), Lower(product.color))
          + (IF Contains(Lower(query), Lower(product.brand)) THEN w.brand_match ELSE 0)
          + (IF TruthyStr(analysis.category) /\ Some(product.category) = analysis.category
             THEN w.category_match ELSE 0) )
      + (IF analysis.max_budget = 0 THEN 0
         ELSE IF product.price <= analysis.max_budget
         THEN 20 * w.price_relevance_under * (analysis.max_budget - product.price)
         ELSE w.price_relevance_over * ScoreDen(analysis))
      + product.rating * w.rating_multiplier * (ScoreDen(analysis) \div 20)

\* C17: the relevance score is computed from the weight table: for every
\* table supplied as SCORING_WEIGHTS, the score of a product is the formula
\* with that table's weights
C17_ScoreFollowsWeights ==
    Succeeded =>
        \A w \in WeightTables :
            \A n \in Indices(response.result.value.products) :
                ReturnedScore(n) = WeightedScore(w, response.result.value.products[n],
                                                 response.query,
                                                 response.result.value.analysis)

---------------------------------------------------------------------------
(* Properties of the category and the tier analyze_budget detects, checked *)
(* under SpecAnalyze                                                       *)

\* the number of keywords of the category n of CATEGORY_KEYWORDS that are in q
Hits(q, n) ==
    Cardinality({k \in 1..Len(CATEGORY_KEYWORDS[n][2]) :
                    Contains(q, CATEGORY_KEYWORDS[n][2][k])})

\* the first of apparel, mobiles, electronics with a keyword in q
FirstCategoryIn(q) ==
    IF Hits(q, 1) > 0 THEN Some("apparel")
    ELSE IF Hits(q, 2) > 0 THEN Some("mobiles")
    ELSE IF Hits(q, 3) > 0 THEN Some("electronics")
    ELSE None

\* q has one of the brand-exclusion phrases
Excluding(q) == \E n \in 1..Len(ExclusionPhrases) : Contains(q, ExclusionPhrases[n])

ComputerWordIn(q) == Contains(q, "laptop") \/ Contains(q, "computer") \/ Contains(q, "macbook")

\* C22: a query with a brand-exclusion phrase and 'laptop', 'computer' or
\* 'macbook' gets the category electronics, also when a keyword of apparel
\* or mobiles is in it; with an exclusion phrase and none of the three words
\* the first-match scan decides
C22_ExclusionForcesElectronics ==
    (Analyzed /\ Excluding(Lower(response.query))) =>
        response.result.value.category =
            (IF ComputerWordIn(Lower(response.query)) THEN Some("electronics")
             ELSE FirstCategoryIn(Lower(response.query)))

\* 'shoes not apple laptop': an apparel keyword stands in the query and
\* electronics is detected
C22_Witness ==
    /\ Analyzed
    /\ Excluding(Lower(response.query))
    /\ ComputerWordIn(Lower(response.query))
    /\ Hits(Lower(response.query), 1) > 0
    /\ response.result.value.category = Some("electronics")

\* a keyword of the tier n of BUDGET_KEYWORDS is in q
TierWordIn(q, n) ==
    \E k \in 1..Len(BUDGET_KEYWORDS[n][2]) : Contains(q, BUDGET_KEYWORDS[n][2][k])

\* the first of low, medium, high with a keyword in q, low when none has
FirstTierIn(q) ==
    IF TierWordIn(q, 1) THEN "low"
    ELSE IF TierWordIn(q, 2) THEN "medium"
    ELSE IF TierWordIn(q, 3) THEN "high"
    ELSE "low"

\* C23: a query no price is extracted from gets the first of low, medium,
\* high that has a tier keyword in it, and low when none has
C23_FirstTierInDeclaredOrder ==
    (Analyzed /\ IsNone(response.result.value.specific_budget)) =>
        response.result.value.budget_type = FirstTierIn(Lower(response.query))

\* a keyword of low and a keyword of high, the high one first in the
\* query: the tier is low
C23_Witness ==
    /\ Analyzed
    /\ IsNone(response.result.value.specific_budget)
    /\ response.query = "premium cheap"
    /\ response.result.value.budget_type = "low"

\* C30: a category keyword on its own carries no tier: for every keyword k
\* of CATEGORY_KEYWORDS, analyze_budget(k) has budget_type 'low' and the
\* max_budget of 'low' for the category it detects
C30_CategoryWordHasNoTier ==
    (Analyzed /\ response.query \in CategoryWords) =>
        /\ response.result.value.budget_type = "low"
        /\ IsRangeCeiling(response.result.value.category, "low",
                          response.result.value.max_budget)

---------------------------------------------------------------------------
(* Properties of _filter_and_rank, checked under SpecRank                  *)

\* _filter_and_rank has returned its list
Ranked == response.op = "_filter_and_rank" /\ ~response.result.raised

\* a colour of COLOR_KEYWORDS is in the query and in the product's colour
ColourMatch(product, query) ==
    \E n \in 1..Len(COLOR_KEYWORDS) :
        /\ Contains(Lower(query), COLOR_KEYWORDS[n])
        /\ Contains(Lower(product.color), COLOR_KEYWORDS[n])

\* the tokens of the query that are in the product's text, each token counted
TokenMatches(product, query) ==
    Cardinality({n \in 1..Len(Split(Lower(query))) :
        Contains(Lower(product.name \o " " \o product.description \o " "
                         \o product.brand \o " " \o product.color),
                 Split(Lower(query))[n])})

\* the price-fit term, times ScoreDen: (1 - price/max_budget) * 2 up to
\* the budget, -5 above it, 0 when max_budget is zero
PriceFit(product, analysis) ==
    IF analysis.max_budget = 0 THEN 0
    ELSE IF product.price <= analysis.max_budget
    THEN 40 * (analysis.max_budget - product.price)
    ELSE (-5) * ScoreDen(analysis)

\* the score the formula gives when the colour term is colour_term, times
\* ScoreDen
FormulaScore(product, query, analysis, colour_term) ==
    ScoreDen(analysis)
        * ( 2 * TokenMatches(product, query)
          + colour_term
          + (IF Contains(Lower(query), Lower(product.brand)) THEN 2 ELSE 0)
          + (IF ~IsNone(analysis.category) /\ analysis.category # Some("")
                /\ analysis.category = Some(product.category)
             THEN 1 ELSE 0) )
      + PriceFit(product, analysis)
      + 3 * product.rating * (ScoreDen(analysis) \div 20)

\* C24: the score of a product is 2 for each query token in its text, + 3
\* for a colour match, + 2 for the brand in the query, + the price-fit term,
\* + rating * 1.5, + 1 for the detected category
C24_ScoreFormula ==
    Ranked =>
        \A n \in Indices(response.found) :
            ScoreNum(response.found[n], response.query, response.analysis)
                = FormulaScore(response.found[n], response.query, response.analysis,
                               IF ColourMatch(response.found[n], response.query)
                               THEN 3 ELSE 0)

\* the colour term of the score of a product, times ScoreDen: the score
\* less the other terms
ColourTerm(product, query, analysis) ==
    ScoreNum(product, query, analysis) - FormulaScore(product, query, analysis, 0)

\* C25: the colour term of the score is 3 when a colour of COLOR_KEYWORDS is
\* in the query and is the product's colour, and 0 otherwise: never above 3
C25_ColourTermAtMostThree ==
    Ranked =>
        \A n \in Indices(response.found) :
            /\ ColourTerm(response.found[n], response.query, response.analysis)
                  \in {0, 3 * ScoreDen(response.analysis)}
            /\ ColourTerm(response.found[n], response.query, response.analysis) # 0
                  <=> ColourMatch(response.found[n], response.query)

\* C27: _filter_and_rank neither drops nor duplicates a candidate: the list
\* it returns holds every product as many times as the list it was given,
\* whatever the scores are, negative ones included
C27_RankingIsPermutation ==
    Ranked =>
        /\ Len(response.result.value) = Len(response.found)
        /\ \A x \in Candidates :
              Copies(response.result.value, x) = Copies(response.found, x)

\* a list that holds one product twice, its score negative
C27_Witness ==
    /\ Ranked
    /\ Len(response.found) = 2
    /\ response.found[1] = response.found[2]
    /\ ScoreNum(response.found[1], response.query, response.analysis) < 0

---------------------------------------------------------------------------
(* Properties of the order of the ranking, checked under Spec              *)

\* the place of the product x in seq (the catalogs hold no product twice)
Place(seq, x) == CHOOSE n \in 1..Len(seq) : seq[n] = x

\* retrieved is in the order rating descending, then price ascending, then
\* the stored order of the catalog
RetrievalOrdered(retrieved, catalog) ==
    \A i, j \in Indices(retrieved) :
        i < j =>
            \/ retrieved[i].rating > retrieved[j].rating
            \/ /\ retrieved[i].rating = retrieved[j].rating
               /\ retrieved[i].price < retrieved[j].price
            \/ /\ retrieved[i].rating = retrieved[j].rating
               /\ retrieved[i].price = retrieved[j].price
               /\ Place(catalog, retrieved[i]) < Place(catalog, retrieved[j])

\* ranked is in the order score descending, then the order of retrieved
ScoreOrdered(ranked, retrieved, query, analysis) ==
    \A i, j \in Indices(ranked) :
        i < j =>
            \/ ScoreNum(ranked[i], query, analysis) > ScoreNum(ranked[j], query, analysis)
            \/ /\ ScoreNum(ranked[i], query, analysis) = ScoreNum(ranked[j], query, analysis)
               /\ Place(retrieved, ranked[i]) < Place(retrieved, ranked[j])

\* the list _filter_and_rank returns for the candidates retrieved
RankedFor(retrieved, query, analysis) == _filter_and_rank(retrieved, query, analysis).value

\* C26: the list _filter_and_rank returns is in non-increasing order of
\* score, and products with equal scores keep the order the retrieval
\* returned them in: rating descending, then price ascending, then the
\* stored order of the catalog; the products process_query returns are the
\* first three of that list
C26_RankingOrder ==
    Succeeded =>
        /\ RetrievalOrdered(RetrievedFor(response.catalog, response.query,
                                         response.result.value.analysis).value,
                            response.catalog)
        /\ ScoreOrdered(RankedFor(RetrievedFor(response.catalog, response.query,
                                               response.result.value.analysis).value,
                                  response.query, response.result.value.analysis),
                        RetrievedFor(response.catalog, response.query,
                                     response.result.value.analysis).value,
                        response.query, response.result.value.analysis)
        /\ response.result.value.products
              = Top3(RankedFor(RetrievedFor(response.catalog, response.query,
                                            response.result.value.analysis).value,
                               response.query, response.result.value.analysis))

\* two products with the same score are returned
C26_Witness ==
    /\ Succeeded
    /\ \E i, j \in Indices(response.result.value.products) :
          /\ i < j
          /\ ReturnedScore(i) = ReturnedScore(j)

---------------------------------------------------------------------------
(* Properties of the candidates process_query scores, checked under        *)
(* SpecPipeline                                                            *)

\* the price-fit term of the candidate, times ScoreDen
CandidateTerm(candidate, analysis) ==
    PriceTerm(candidate.price, analysis.max_budget, ScoreDen(analysis))

\* every candidate is within a positive max_budget
WithinBudget(retrieved, analysis) ==
    /\ analysis.max_budget > 0
    /\ \A n \in Indices(retrieved) : retrieved[n].price <= analysis.max_budget

\* the price-fit term of every candidate lies in [0, 2)
TermsBelowTwo(retrieved, analysis) ==
    \A n \in Indices(retrieved) :
        /\ CandidateTerm(retrieved[n], analysis) >= 0
        /\ CandidateTerm(retrieved[n], analysis) < 2 * ScoreDen(analysis)

TermsAtMostTwo(retrieved, analysis) ==
    \A n \in Indices(retrieved) :
        /\ CandidateTerm(retrieved[n], analysis) >= 0
        /\ retrieved[n].price > 0 =>
              CandidateTerm(retrieved[n], analysis) < 2 * ScoreDen(analysis)
        /\ retrieved[n].price = 0 =>
              CandidateTerm(retrieved[n], analysis) = 2 * ScoreDen(analysis)

---------------------------------------------------------------------------
(* Properties of the stored catalog, checked under Spec                    *)

\* C29: search_products changes neither the content nor the order of the
\* stored catalog, whatever filters it is given, so get_product_by_id(i)
\* after the call is the product it was before the call, the i-th in
\* insertion order, and None for an index outside the catalog
C29_SearchKeepsIndices ==
    response.op = "search_products" =>
        \A i \in (-1)..Len(response.catalog) :
            get_product_by_id(products, i) = get_product_by_id(response.catalog, i)

===========================================================================
